---- MODULE Spec2Model ----
(***************************************************************************)
(* A model of the resume scorer of src/main.py: the two endpoints (/score, *)
(* /upload), the acquisition of the resume text from an upload, and the    *)
(* generate-clean-validate-retry loop of process_resume.                   *)
(*                                                                         *)
(* Text is a sequence of one-character strings, so that strip, startswith  *)
(* and replace are computed as Python computes them.  A JSON value is a    *)
(* record [t, n, s, l]: its JSON type t, and the payload of that type (n   *)
(* for numbers and booleans, s for strings, l for the items of a list).    *)
(***************************************************************************)
EXTENDS Integers, Sequences, FiniteSets, TLC

VARIABLES
    pc,           \* "idle" | "loop" | "done": where the request handler is
    endpoint,     \* "none" | "score" | "upload"
    upload,       \* the uploaded file of an /upload request (NoFile otherwise)
    resume_text,  \* the argument of process_resume (a JSON-like value)
    prompt,       \* the prompt built by process_resume (text)
    attempt,      \* the loop variable of process_resume: iterations finished
    calls,        \* the prompts of the model calls made so far, in order
    outputs,      \* the texts the model returned to those calls, in order
    status,       \* 0 while running, else the HTTP status of the answer
    detail,       \* the error detail of a 4xx/5xx answer ("" otherwise)
    response,     \* the body of a 200 answer (NoResponse otherwise)
    lax_str,      \* build: TRUE when the installed pydantic coerces numbers to str
    J,            \* clean_json study: the JSON text the model wrapped
    model_text,   \* clean_json study: the text of the model's response
    cleaned,      \* clean_json study: the text handed to the parser
    cpc,          \* clean_json study: "off" | "raw" | "cleaned"
    reqs          \* concurrent requests: the locals of each handler, by request

vars == <<pc, endpoint, upload, resume_text, prompt, attempt, calls, outputs,
          status, detail, response, lax_str, J, model_text, cleaned, cpc, reqs>>

reqvars == <<pc, endpoint, upload, resume_text, prompt, attempt, calls, outputs,
             status, detail, response, lax_str>>

cleanvars == <<J, model_text, cleaned, cpc>>

-----------------------------------------------------------------------------
(* Python str operations, on sequences of characters.                      *)

Whitespace == {" ", "\n"}

\* the backtick character (a TLA+ string cannot hold it), written "BT"
Backtick == "BT"

\* s.startswith(p)
StartsWith(s, p) == Len(s) >= Len(p) /\ SubSeq(s, 1, Len(p)) = p

RECURSIVE LStrip(_, _)
LStrip(s, chars) ==
    IF s # <<>> /\ Head(s) \in chars THEN LStrip(Tail(s), chars) ELSE s

RECURSIVE RStrip(_, _)
RStrip(s, chars) ==
    IF s # <<>> /\ s[Len(s)] \in chars
    THEN RStrip(SubSeq(s, 1, Len(s) - 1), chars)
    ELSE s

\* s.strip(chars): every leading and every trailing character in chars goes
StripChars(s, chars) == RStrip(LStrip(s, chars), chars)

\* s.strip()
Strip(s) == StripChars(s, Whitespace)

\* s.replace(old, new): every non-overlapping occurrence, scanning left to right
RECURSIVE Replace(_, _, _)
Replace(s, old, new) ==
    IF Len(s) < Len(old) \/ old = <<>> THEN s
    ELSE IF SubSeq(s, 1, Len(old)) = old
         THEN new \o Replace(SubSeq(s, Len(old) + 1, Len(s)), old, new)
         ELSE <<Head(s)>> \o Replace(Tail(s), old, new)

T_json == <<"j", "s", "o", "n">>

T_fence == <<Backtick, Backtick, Backtick>>

\* clean_json on the text itself
clean_json(raw_text) ==
    IF StartsWith(raw_text, T_fence)
    THEN Strip(Replace(StripChars(raw_text, {Backtick}), T_json, <<>>))
    ELSE raw_text

\* call_gemini on the text of the model's response: response.text.strip()
call_gemini_text(text) == Strip(text)

-----------------------------------------------------------------------------
(* JSON values, as json.loads builds them.  A float carries its value in   *)
(* tenths (75 is 7.5), an int its value, a bool 0 or 1.                    *)

JNull == [t |-> "null", n |-> 0, s |-> <<>>, l |-> <<>>]

JInt(i) == [t |-> "int", n |-> i, s |-> <<>>, l |-> <<>>]

JFloat(tenths) == [t |-> "float", n |-> tenths, s |-> <<>>, l |-> <<>>]

JBool(b) == [t |-> "bool", n |-> IF b THEN 1 ELSE 0, s |-> <<>>, l |-> <<>>]

JStr(text) == [t |-> "str", n |-> 0, s |-> text, l |-> <<>>]

JList(items) == [t |-> "list", n |-> 0, s |-> <<>>, l |-> items]

\* a nested JSON object, whose content no operation of the program reads
JDict == [t |-> "dict", n |-> 0, s |-> <<>>, l |-> <<>>]

Digits == <<"0", "1", "2", "3", "4", "5", "6", "7", "8", "9">>

DigitSet == {Digits[i] : i \in 1..Len(Digits)}

DigitVal(c) == (CHOOSE i \in 1..Len(Digits) : Digits[i] = c) - 1

\* the decimal digits of a natural number
RECURSIVE NatToText(_)
NatToText(i) ==
    IF i < 10 THEN <<Digits[i + 1]>>
    ELSE NatToText(i \div 10) \o <<Digits[(i % 10) + 1]>>

\* str(i) of a Python int
IntToText(i) == IF i < 0 THEN <<"-">> \o NatToText(-i) ELSE NatToText(i)

\* str(x) of a Python float given in tenths: 75 is "7.5", 70 is "7.0"
FloatToText(tenths) ==
    LET a == IF tenths < 0 THEN -tenths ELSE tenths
    IN  (IF tenths < 0 THEN <<"-">> ELSE <<>>)
        \o NatToText(a \div 10) \o <<".">> \o <<Digits[(a % 10) + 1]>>

\* the value of a text of decimal digits
RECURSIVE TextToNat(_)
TextToNat(s) ==
    IF s = <<>> THEN 0
    ELSE 10 * TextToNat(SubSeq(s, 1, Len(s) - 1)) + DigitVal(s[Len(s)])

\* the texts float() reads as a number, among those the model draws: an
\* optional sign and one or more decimal digits, whitespace around them
IsNumericText(s) ==
    LET u == Strip(s)
        d == IF u # <<>> /\ Head(u) = "-" THEN Tail(u) ELSE u
    IN  d # <<>> /\ \A i \in 1..Len(d) : d[i] \in DigitSet

\* float(s) of such a text, in tenths
TextToFloat(s) ==
    LET u == Strip(s)
    IN  IF Head(u) = "-" THEN -10 * TextToNat(Tail(u)) ELSE 10 * TextToNat(u)

-----------------------------------------------------------------------------
(* The schema: ResumeScoreResponse, and pydantic's validation of a dict    *)
(* against it.  A parsed JSON object is a function from its keys to JSON   *)
(* values.                                                                 *)

StrFields == {"summary", "feedback"}

FloatFields == {"skills_score", "experience_score", "overall_score"}

ListFields == {"missing_aspects"}

\* the schema with the feedback field forgotten
SchemaFields_missing_one == {"summary"} \cup FloatFields \cup ListFields

SchemaFields == StrFields \cup FloatFields \cup ListFields

\* field type str: a str is taken as it is; pydantic 1 also takes a number
\* and stores str(number), pydantic 2 rejects it
StrAccepts(v) == v.t = "str" \/ (lax_str /\ v.t \in {"int", "float", "bool"})

StrCoerce(v) ==
    CASE v.t = "str" -> v
      [] v.t = "int" -> JStr(IntToText(v.n))
      [] v.t = "float" -> JStr(FloatToText(v.n))
      [] v.t = "bool" -> JStr(IF v.n = 1 THEN <<"T", "r", "u", "e">>
                                         ELSE <<"F", "a", "l", "s", "e">>)

\* the float type with the range of the prompt enforced: 1 to 10
FloatAccepts_in_range(v) ==
    \/ v.t = "float" /\ v.n >= 10 /\ v.n <= 100
    \/ v.t \in {"int", "bool"} /\ v.n >= 1 /\ v.n <= 10
    \/ v.t = "str" /\ IsNumericText(v.s)

\* field type float: a float is taken as it is; an int, a bool and a text
\* that float() reads are converted (both pydantic 1 and 2, lax mode)
FloatAccepts(v) ==
    \/ v.t \in {"float", "int", "bool"}
    \/ v.t = "str" /\ IsNumericText(v.s)

FloatCoerce(v) ==
    CASE v.t = "float" -> v
      [] v.t \in {"int", "bool"} -> JFloat(10 * v.n)
      [] v.t = "str" -> JFloat(TextToFloat(v.s))

\* field type list[str]: a list each of whose items the str type accepts
ListStrAccepts(v) ==
    v.t = "list" /\ \A i \in 1..Len(v.l) : StrAccepts(v.l[i])

ListStrCoerce(v) == JList([i \in 1..Len(v.l) |-> StrCoerce(v.l[i])])

FieldAccepts(k, v) ==
    CASE k \in StrFields -> StrAccepts(v)
      [] k \in FloatFields -> FloatAccepts(v)
      [] k \in ListFields -> ListStrAccepts(v)

\* no conversion: the value is stored as the model gave it
FieldCoerce_as_given(k, v) == v

FieldCoerce(k, v) ==
    CASE k \in StrFields -> StrCoerce(v)
      [] k \in FloatFields -> FloatCoerce(v)
      [] k \in ListFields -> ListStrCoerce(v)

\* ResumeScoreResponse(**d) raises ValidationError unless this holds: every
\* field is required, keys outside the schema are ignored
SchemaAccepts(d) ==
    \A k \in SchemaFields : k \in DOMAIN d /\ FieldAccepts(k, d[k])

\* the fields of the instance ResumeScoreResponse(**d), which is the body
\* FastAPI serialises under response_model=ResumeScoreResponse
ResumeScoreResponse(d) == [k \in SchemaFields |-> FieldCoerce(k, d[k])]

-----------------------------------------------------------------------------
(* Documents and model responses.  A document is what a JSON text holds:   *)
(* nothing (the text is not JSON), a top-level value that is not an        *)
(* object, or an object.  A model response is the text of a document,      *)
(* possibly inside a code fence with the json tag, possibly with           *)
(* whitespace around it.                                                   *)

NoDict == <<>>

NotJson == [k |-> "malformed", v |-> JNull, f |-> NoDict]

TopValue(v) == [k |-> "value", v |-> v, f |-> NoDict]

TopObject(d) == [k |-> "object", v |-> JNull, f |-> d]

With(d, key, v) == [x \in DOMAIN d \cup {key} |-> IF x = key THEN v ELSE d[x]]

Without(d, key) == [x \in DOMAIN d \ {key} |-> d[x]]

Response(pad, fence, doc) == [pad |-> pad, fence |-> fence, doc |-> doc]

\* raw_text.replace("json", "") as it acts on one string of the document
Unjson(text) == Replace(text, T_json, <<>>)

UnjsonValue(v) ==
    CASE v.t = "str" -> JStr(Unjson(v.s))
      [] v.t = "list" ->
            JList([i \in 1..Len(v.l) |->
                      IF v.l[i].t = "str" THEN JStr(Unjson(v.l[i].s)) ELSE v.l[i]])
      [] OTHER -> v

\* call_gemini: response.text.strip()
call_gemini(resp) == [resp EXCEPT !.pad = FALSE]

\* clean_json on a response: a text that starts with the fence loses the
\* backticks at both ends and every occurrence of "json", then is stripped;
\* any other text is returned as it is
clean_json_response(raw) ==
    IF raw.fence /\ ~raw.pad
    THEN Response(FALSE, FALSE,
                  [raw.doc EXCEPT !.v = UnjsonValue(@),
                                  !.f = [x \in DOMAIN @ |-> UnjsonValue(@[x])]])
    ELSE raw

\* json.loads: JSONDecodeError for a text that is not JSON or still carries
\* its fence; whitespace around the document is skipped
json_loads(raw) == IF raw.fence THEN NotJson ELSE raw.doc

\* validate_and_parse_json: the dict, None, or the TypeError that
\* ResumeScoreResponse(**data) raises for data that is no mapping and that
\* the except clause does not name
validate_and_parse_json(raw) ==
    LET data == json_loads(raw)
    IN  IF data.k = "malformed" THEN [r |-> "None", data |-> NoDict]
        ELSE IF data.k # "object" THEN [r |-> "TypeError", data |-> NoDict]
        ELSE IF SchemaAccepts(data.f) THEN [r |-> "dict", data |-> data.f]
        ELSE [r |-> "None", data |-> NoDict]

\* the truth value of what validate_and_parse_json returned
Truthy(parsed) == parsed.r = "dict" /\ DOMAIN parsed.data # {}

-----------------------------------------------------------------------------
(* Uploads.  An uploaded JSON document keeps its members as a sequence of  *)
(* <<key, value>> pairs (a Python dict keeps insertion order), with keys   *)
(* as text, so that json.dumps can be computed character by character.     *)

K_resume_text == <<"r", "e", "s", "u", "m", "e", "_", "t", "e", "x", "t">>

K_other == <<"o", "t", "h", "e", "r">>

FileNotJson == [k |-> "malformed", v |-> JNull, m |-> <<>>]

FileValue(v) == [k |-> "value", v |-> v, m |-> <<>>]

FileObject(members) == [k |-> "object", v |-> JNull, m |-> members]

RECURSIVE Join(_, _)
Join(texts, sep) ==
    IF texts = <<>> THEN <<>>
    ELSE IF Len(texts) = 1 THEN texts[1]
    ELSE texts[1] \o sep \o Join(Tail(texts), sep)

Quoted(text) == <<"\"">> \o text \o <<"\"">>

\* json.dumps of a value that is not an object (default separators)
DumpsValue(v) ==
    CASE v.t = "null" -> <<"n", "u", "l", "l">>
      [] v.t = "int" -> IntToText(v.n)
      [] v.t = "float" -> FloatToText(v.n)
      [] v.t = "bool" -> IF v.n = 1 THEN <<"t", "r", "u", "e">>
                                    ELSE <<"f", "a", "l", "s", "e">>
      [] v.t = "str" -> Quoted(v.s)
      [] v.t = "list" ->
            <<"[">> \o Join([i \in 1..Len(v.l) |->
                               IF v.l[i].t = "str" THEN Quoted(v.l[i].s)
                               ELSE IF v.l[i].t = "int" THEN IntToText(v.l[i].n)
                               ELSE <<"n", "u", "l", "l">>],
                            <<",", " ">>) \o <<"]">>
      [] v.t = "dict" -> <<"{", "}">>

\* json.dumps(data) of an uploaded document
json_dumps(doc) ==
    IF doc.k = "value" THEN DumpsValue(doc.v)
    ELSE <<"{">>
         \o Join([i \in 1..Len(doc.m) |->
                     Quoted(doc.m[i][1]) \o <<":", " ">> \o DumpsValue(doc.m[i][2])],
                 <<",", " ">>)
         \o <<"}">>

HasKey(members, key) == \E i \in 1..Len(members) : members[i][1] = key

\* dict.get(key): the value of the last member with that key, None without
DictGet(members, key) ==
    IF HasKey(members, key)
    THEN LET i == CHOOSE j \in 1..Len(members) :
                     /\ members[j][1] = key
                     /\ \A h \in (j + 1)..Len(members) : members[h][1] # key
         IN  members[i][2]
    ELSE JNull

\* bool(v) of a Python value
PyTruth(v) ==
    CASE v.t = "null" -> FALSE
      [] v.t \in {"int", "float", "bool"} -> v.n # 0
      [] v.t = "str" -> v.s # <<>>
      [] v.t = "list" -> v.l # <<>>
      [] v.t = "dict" -> FALSE

\* A PDF file: whether PdfReader opens it, and what extract_text does on
\* each page (a text, None, or an exception).
PText(text) == [r |-> "text", s |-> text]

PNone == [r |-> "None", s |-> <<>>]

PRaise == [r |-> "raise", s |-> <<>>]

PdfFile(opens, pages) == [opens |-> opens, pages |-> pages]

\* the pages read last to first
RECURSIVE PagesText_reversed(_)
PagesText_reversed(pages) ==
    IF pages = <<>> THEN <<>>
    ELSE PagesText_reversed(Tail(pages))
         \o (IF Head(pages).r = "text" THEN Head(pages).s ELSE <<>>)

RECURSIVE PagesText(_)
PagesText(pages) ==
    IF pages = <<>> THEN <<>>
    ELSE (IF Head(pages).r = "text" THEN Head(pages).s ELSE <<>>)
         \o PagesText(Tail(pages))

D_pdf == "Error reading PDF"

D_json == "Invalid JSON file"

D_type == "Only PDF or JSON files are supported"

D_model == "Model failed to return valid JSON after 3 attempts"

D_unhandled == "Internal Server Error"

Ok(v) == [ok |-> TRUE, text |-> v, detail |-> ""]

Http400(d) == [ok |-> FALSE, text |-> JNull, detail |-> d]

\* extract_text_from_pdf with the exception swallowed: no text
extract_text_from_pdf_swallow(pdf) ==
    IF ~pdf.opens \/ \E i \in 1..Len(pdf.pages) : pdf.pages[i].r = "raise"
    THEN Ok(JStr(<<>>))
    ELSE Ok(JStr(Strip(PagesText(pdf.pages))))

\* extract_text_from_pdf: any exception becomes a 400
extract_text_from_pdf(pdf) ==
    IF ~pdf.opens \/ \E i \in 1..Len(pdf.pages) : pdf.pages[i].r = "raise"
    THEN Http400(D_pdf)
    ELSE Ok(JStr(Strip(PagesText(pdf.pages))))

\* the application/json branch of upload_resume: any exception, the
\* AttributeError of data.get on a document that is no dict included,
\* becomes a 400
json_resume_text(doc) ==
    IF doc.k # "object" THEN Http400(D_json)
    ELSE LET got == DictGet(doc.m, K_resume_text)
         IN  IF PyTruth(got) THEN Ok(got) ELSE Ok(JStr(json_dumps(doc)))

CT_pdf == "application/pdf"

CT_json == "application/json"

\* upload_resume with any other content type read as JSON
upload_resume_json_default(file) ==
    IF file.ctype = CT_pdf THEN extract_text_from_pdf(file.pdf)
    ELSE json_resume_text(file.json)

\* upload_resume up to its call of process_resume
upload_resume(file) ==
    IF file.ctype = CT_pdf THEN extract_text_from_pdf(file.pdf)
    ELSE IF file.ctype = CT_json THEN json_resume_text(file.json)
    ELSE Http400(D_type)

-----------------------------------------------------------------------------
(* process_resume.                                                         *)

\* the loop with one iteration more
MaxAttempts_four == 3 + 1

MaxAttempts == 3

\* the two fixed parts of the prompt template, each written as one token
P_head == <<"<You are an expert HR ... Resume:>">>

P_tail == <<"<Return ONLY valid JSON ... No extra text.>">>

\* {resume_text} inside the f-string: str() of the value
FString(v) ==
    CASE v.t = "str" -> v.s
      [] v.t = "int" -> IntToText(v.n)
      [] v.t = "float" -> FloatToText(v.n)
      [] v.t = "bool" -> IF v.n = 1 THEN <<"T", "r", "u", "e">>
                                    ELSE <<"F", "a", "l", "s", "e">>

build_prompt(text) == P_head \o FString(text) \o P_tail

\* the prompt with a note about the failed attempt added on a retry
CallPrompt_with_feedback ==
    IF attempt > 0 THEN prompt \o <<"<your last answer was invalid>">> ELSE prompt

\* the prompt handed to call_gemini in an iteration of the loop
CallPrompt == prompt

\* the loop with its return moved after it: a valid answer is returned
\* only by the last iteration
Iteration_no_early_return(resp) ==
    LET raw_text == clean_json_response(call_gemini(resp))
        parsed == validate_and_parse_json(raw_text)
    IN  IF parsed.r = "TypeError" THEN [act |-> "raise", body |-> NoDict]
        ELSE IF ~Truthy(parsed) \/ attempt + 1 < MaxAttempts
             THEN [act |-> "continue", body |-> NoDict]
             ELSE [act |-> "return", body |-> ResumeScoreResponse(parsed.data)]

\* one iteration of the loop on the model's response: "return" the
\* response built from the parsed dict, "raise" (the TypeError of the
\* validation, or the ValidationError of ResumeScoreResponse(**parsed),
\* neither of which anything catches), or "continue" with the next iteration
Iteration(resp) ==
    LET raw_text == clean_json_response(call_gemini(resp))
        parsed == validate_and_parse_json(raw_text)
    IN  IF parsed.r = "TypeError" THEN [act |-> "raise", body |-> NoDict]
        ELSE IF ~Truthy(parsed) THEN [act |-> "continue", body |-> NoDict]
        ELSE IF SchemaAccepts(parsed.data)
             THEN [act |-> "return", body |-> ResumeScoreResponse(parsed.data)]
             ELSE [act |-> "raise", body |-> NoDict]

\* call_gemini's exception caught and the attempt retried
OnCallError_retry == "continue"

\* what the loop does when call_gemini raises: nothing catches the
\* exception, it leaves process_resume
OnCallError == "raise"

-----------------------------------------------------------------------------
(* The inputs the model draws.                                             *)

MaxPages == 2

SeqsUpTo(S, n) == UNION {[1..k -> S] : k \in 0..n}

ScoreTexts == {<<>>, <<"c", "v">>}

JsonFiles ==
    { FileNotJson,
      FileObject(<< <<K_resume_text, JStr(<<"f", "o", "o">>)>> >>),
      FileObject(<< <<K_resume_text, JStr(<<>>)>> >>),
      FileObject(<< <<K_other, JStr(<<"b", "a", "r">>)>> >>),
      FileValue(JList(<<JStr(<<"a">>)>>)),
      FileValue(JInt(5)) }

PageOutcomes == {PText(<<"p", " ">>), PText(<<"q">>), PNone, PRaise}

NoPdf == PdfFile(FALSE, <<>>)

PdfFiles ==
    {NoPdf} \cup {PdfFile(TRUE, pages) : pages \in SeqsUpTo(PageOutcomes, MaxPages)}

NoFile == [ctype |-> "", json |-> FileNotJson, pdf |-> NoPdf]

Uploads ==
    {[ctype |-> CT_pdf, json |-> FileNotJson, pdf |-> f] : f \in PdfFiles}
    \cup {[ctype |-> CT_json, json |-> f, pdf |-> NoPdf] : f \in JsonFiles}
    \cup {[ctype |-> c, json |-> f, pdf |-> NoPdf] :
             c \in {"text/plain", "image/png"},
             f \in {FileObject(<< <<K_resume_text, JStr(<<"f", "o", "o">>)>> >>)}}

\* a model output that matches the schema exactly
Good ==
    [ summary |-> JStr(<<"o", "k">>),
      skills_score |-> JFloat(75),
      experience_score |-> JFloat(80),
      overall_score |-> JFloat(70),
      feedback |-> JStr(<<"f", "b">>),
      missing_aspects |-> JList(<<JStr(<<"a">>), JStr(<<"b">>)>>) ]

S_knows_json == <<"k", "n", "o", "w", "s", " ", "j", "s", "o", "n">>

ModelResponses ==
    { Response(FALSE, FALSE, TopObject(Good)),
      Response(FALSE, FALSE, TopObject(With(Good, "skills_score", JInt(7)))),
      Response(FALSE, FALSE, TopObject(With(Good, "overall_score", JStr(<<"7">>)))),
      Response(FALSE, FALSE, TopObject(With(Good, "note", JStr(<<"n">>)))),
      Response(FALSE, FALSE, TopObject(Without(Good, "feedback"))),
      Response(FALSE, FALSE, TopObject(With(Good, "summary", JNull))),
      Response(FALSE, FALSE, TopObject(With(Good, "summary", JInt(5)))),
      Response(FALSE, FALSE, TopObject(With(Good, "experience_score", JStr(<<"h", "i">>)))),
      Response(TRUE, TRUE, TopObject(With(Good, "summary", JStr(S_knows_json)))),
      Response(FALSE, FALSE,
               TopObject([Good EXCEPT !["skills_score"] = JInt(0),
                                      !["experience_score"] = JFloat(-30),
                                      !["overall_score"] = JInt(11),
                                      !["missing_aspects"] = JList(<<>>)])),
      Response(FALSE, FALSE,
               TopObject(With(Good, "missing_aspects",
                              JList(<<JStr(<<"a">>), JStr(<<"b">>), JStr(<<"c">>),
                                      JStr(<<"d">>), JStr(<<"e">>)>>)))),
      Response(FALSE, FALSE, TopObject(NoDict)),
      Response(FALSE, FALSE, NotJson),
      Response(FALSE, FALSE, TopValue(JList(<<>>))),
      Response(FALSE, FALSE, TopValue(JNull)),
      Response(FALSE, FALSE, TopValue(JInt(5))),
      Response(FALSE, FALSE, TopValue(JStr(<<"o", "k">>))) }

NoResponse == NoDict

-----------------------------------------------------------------------------
(* The request handlers.                                                   *)

Init ==
    /\ pc = "idle"
    /\ endpoint = "none"
    /\ upload = NoFile
    /\ resume_text = JNull
    /\ prompt = <<>>
    /\ attempt = 0
    /\ calls = <<>>
    /\ outputs = <<>>
    /\ status = 0
    /\ detail = ""
    /\ response = NoResponse
    /\ lax_str \in BOOLEAN
    /\ J = <<>>
    /\ model_text = <<>>
    /\ cleaned = <<>>
    /\ cpc = "off"
    /\ reqs = <<>>

\* process_resume up to its loop: the prompt is built from the resume text
EnterLoop(text) ==
    /\ resume_text' = text
    /\ prompt' = build_prompt(text)
    /\ pc' = "loop"
    /\ UNCHANGED <<attempt, calls, outputs, status, detail, response>>

\* POST /score with a body {"resume_text": text}
ScoreRequest(text) ==
    /\ pc = "idle"
    /\ endpoint' = "score"
    /\ EnterLoop(JStr(text))
    /\ UNCHANGED <<upload, lax_str, cleanvars, reqs>>

\* POST /upload with a file
UploadRequest(file) ==
    /\ pc = "idle"
    /\ endpoint' = "upload"
    /\ upload' = file
    /\ LET got == upload_resume(file)
       IN  IF got.ok
           THEN EnterLoop(got.text)
           ELSE /\ status' = 400
                /\ detail' = got.detail
                /\ pc' = "done"
                /\ UNCHANGED <<resume_text, prompt, attempt, calls, outputs, response>>
    /\ UNCHANGED <<lax_str, cleanvars, reqs>>

\* one iteration of the loop of process_resume, the model answering resp;
\* the iteration that ends the loop raises the 500
Attempt(resp) ==
    /\ pc = "loop"
    /\ attempt < MaxAttempts
    /\ calls' = Append(calls, CallPrompt)
    /\ outputs' = Append(outputs, resp)
    /\ LET it == Iteration(resp)
       IN  CASE it.act = "return" ->
                  /\ response' = it.body
                  /\ status' = 200
                  /\ pc' = "done"
                  /\ UNCHANGED <<attempt, detail>>
             [] it.act = "raise" ->
                  /\ status' = 500
                  /\ detail' = D_unhandled
                  /\ pc' = "done"
                  /\ UNCHANGED <<attempt, response>>
             [] it.act = "continue" ->
                  /\ attempt' = attempt + 1
                  /\ IF attempt + 1 < MaxAttempts
                     THEN UNCHANGED <<pc, status, detail>>
                     ELSE /\ status' = 500
                          /\ detail' = D_model
                          /\ pc' = "done"
                  /\ UNCHANGED response
    /\ UNCHANGED <<endpoint, upload, resume_text, prompt, lax_str, cleanvars, reqs>>

\* an iteration in which call_gemini raises (the client fails, or the
\* response has no text): nothing catches it
CallRaises ==
    /\ pc = "loop"
    /\ attempt < MaxAttempts
    /\ calls' = Append(calls, CallPrompt)
    /\ IF OnCallError = "raise"
       THEN /\ status' = 500
            /\ detail' = D_unhandled
            /\ pc' = "done"
            /\ UNCHANGED attempt
       ELSE /\ attempt' = attempt + 1
            /\ IF attempt + 1 < MaxAttempts
               THEN UNCHANGED <<pc, status, detail>>
               ELSE /\ status' = 500
                    /\ detail' = D_model
                    /\ pc' = "done"
    /\ UNCHANGED <<endpoint, upload, resume_text, prompt, outputs, response,
                   lax_str, cleanvars, reqs>>

Next ==
    \/ \E text \in ScoreTexts : ScoreRequest(text)
    \/ \E file \in Uploads : UploadRequest(file)
    \/ \E resp \in ModelResponses : Attempt(resp)
    \/ CallRaises

Spec == Init /\ [][Next]_vars

-----------------------------------------------------------------------------
(* What the claims speak of.                                               *)

\* the text handed to the parser for a model response
CleanedOf(resp) == clean_json_response(call_gemini(resp))

\* the response passes validation: validate_and_parse_json returns the dict
PassesValidation(resp) == validate_and_parse_json(CleanedOf(resp)).r = "dict"

\* the object parsed from a response that passes validation
ParsedOf(resp) == validate_and_parse_json(CleanedOf(resp)).data

\* the cleaned text fails JSON parsing, or is JSON but no object, or is an
\* object the schema rejects
InvalidOutput(resp) ==
    LET d == json_loads(CleanedOf(resp))
    IN  d.k # "object" \/ ~SchemaAccepts(d.f)

\* every model call made so far returned a text
AllCallsReturned == Len(outputs) = Len(calls)

LastOutput == outputs[Len(outputs)]

\* C1: as soon as the cleaned output of attempt k passes validation the
\* request has returned (with a 200) and attempt k is the last model call.
Thm_C1 ==
    \A k \in 1..Len(outputs) :
        PassesValidation(outputs[k]) =>
            /\ Len(calls) = k
            /\ pc = "done"
            /\ status = 200

\* a request answered at its second attempt, the first having failed
Wit_C1 ==
    /\ Len(outputs) = 2
    /\ ~PassesValidation(outputs[1])
    /\ PassesValidation(outputs[2])
    /\ status = 200

\* C2: invalid output on all 3 attempts gives a 500 after exactly 3 model
\* calls, and the loop surfaces no 500 after fewer than 3 model calls
\* (the model having returned a text to every call).
Claim_C2 ==
    /\ (Len(outputs) = 3 /\ \A k \in 1..3 : InvalidOutput(outputs[k]))
           => (pc = "done" /\ status = 500 /\ Len(calls) = 3)
    /\ (status = 500 /\ AllCallsReturned) => Len(calls) = 3

\* C3: an output whose cleaned text fails parsing or validation is
\* discarded silently: no error reaches the caller from that attempt and,
\* fewer than 3 attempts made, the loop goes on to the next attempt.
Claim_C3 ==
    \A k \in 1..Len(outputs) :
        (InvalidOutput(outputs[k]) /\ k < MaxAttempts /\ k = Len(calls))
            => (pc = "loop" /\ status = 0)

\* C4: invalid outputs on attempts 1 and 2 and a valid one on attempt 3
\* give a 200 with the result parsed from the third output after exactly 3
\* model calls; so after one or two invalid outputs the request has not
\* ended.
Claim_C4 ==
    /\ (AllCallsReturned /\ Len(outputs) \in {1, 2}
          /\ \A k \in 1..Len(outputs) : InvalidOutput(outputs[k]))
           => pc = "loop"
    /\ (Len(outputs) = 3 /\ InvalidOutput(outputs[1]) /\ InvalidOutput(outputs[2])
          /\ ~InvalidOutput(outputs[3]))
           => /\ status = 200
              /\ Len(calls) = 3
              /\ \A f \in SchemaFields :
                    response[f] = FieldCoerce(f, ParsedOf(outputs[3])[f])

IsNumber(v) == v.t \in {"int", "float"}

\* the same number, whichever of int and float carries it
SameNumber(v, w) ==
    (IF v.t = "float" THEN v.n ELSE 10 * v.n) = (IF w.t = "float" THEN w.n ELSE 10 * w.n)

\* the same JSON object: the same keys, and under each key the same value,
\* two numbers being the same when their values are (7 and 7.0)
SameObject(a, b) ==
    /\ DOMAIN a = DOMAIN b
    /\ \A f \in DOMAIN a :
          IF IsNumber(a[f]) /\ IsNumber(b[f]) THEN SameNumber(a[f], b[f])
          ELSE a[f] = b[f]

\* C5 as claimed: a 200 carries the parsed object itself, nothing added,
\* dropped or converted.
Claim_C5 == status = 200 => SameObject(response, ParsedOf(LastOutput))

\* C5 as amended: a 200 carries exactly the six schema fields, each taken
\* from the object parsed from the successful attempt: a text and a list of
\* texts unchanged, a number score as the float of the same value, a score
\* given as a text of digits as the float it denotes, a number given for a
\* text (where the installed pydantic takes it) as its decimal text; keys
\* outside the schema are dropped.  The response is the parsed object
\* itself when that object holds the six fields only, with texts, floats
\* and a list of texts.
Thm_C5 ==
    status = 200 =>
        LET d == ParsedOf(LastOutput)
        IN  /\ DOMAIN response = {"summary", "skills_score", "experience_score",
                                  "overall_score", "feedback", "missing_aspects"}
            /\ DOMAIN response \subseteq DOMAIN d
            /\ \A f \in {"summary", "feedback"} :
                  /\ d[f].t = "str" => response[f] = d[f]
                  /\ d[f].t = "int" => response[f] = JStr(IntToText(d[f].n))
            /\ \A f \in {"skills_score", "experience_score", "overall_score"} :
                  /\ response[f].t = "float"
                  /\ IsNumber(d[f]) => SameNumber(response[f], d[f])
                  /\ d[f].t = "str" => response[f].n = 10 * TextToNat(d[f].s)
            /\ (\A i \in 1..Len(d["missing_aspects"].l) :
                    d["missing_aspects"].l[i].t = "str")
                  => response["missing_aspects"] = d["missing_aspects"]
            /\ ( /\ DOMAIN d = DOMAIN response
                 /\ \A f \in {"summary", "feedback"} : d[f].t = "str"
                 /\ \A f \in {"skills_score", "experience_score", "overall_score"} :
                       d[f].t = "float"
                 /\ \A i \in 1..Len(d["missing_aspects"].l) :
                       d["missing_aspects"].l[i].t = "str" )
               => response = d

\* a 200 whose body is not the parsed object: a key was dropped or a value
\* converted
Wit_C5 == status = 200 /\ ~SameObject(response, ParsedOf(LastOutput))

\* C6: at most 3 model calls, each made with the prompt built from the
\* resume text of the request.
Thm_C6 ==
    /\ Len(calls) <= 3
    /\ \A i \in 1..Len(calls) : calls[i] = build_prompt(resume_text)

\* a request that made its third call after two failed attempts
Wit_C6 == Len(calls) = 3 /\ attempt >= 2

\* the value has the JSON type the schema names for the field
StrictlyTyped(f, v) ==
    CASE f \in {"summary", "feedback"} -> v.t = "str"
      [] f \in {"skills_score", "experience_score", "overall_score"} -> IsNumber(v)
      [] OTHER -> v.t = "list" /\ \A i \in 1..Len(v.l) : v.l[i].t = "str"

\* the body holds the six fields, a text, a float or a list of texts each
WellTypedBody(body) ==
    /\ DOMAIN body = {"summary", "skills_score", "experience_score",
                      "overall_score", "feedback", "missing_aspects"}
    /\ \A f \in {"summary", "feedback"} : body[f].t = "str"
    /\ \A f \in {"skills_score", "experience_score", "overall_score"} :
          body[f].t = "float"
    /\ body["missing_aspects"].t = "list"
    /\ \A i \in 1..Len(body["missing_aspects"].l) :
          body["missing_aspects"].l[i].t = "str"

SixFields ==
    {"summary", "skills_score", "experience_score", "overall_score", "feedback",
     "missing_aspects"}

\* C8 as claimed: a 200 carries the six fields with their types, from an
\* output that passed validation, and no output lacking a field or holding
\* a wrongly-typed field yields a 200.
Claim_C8 ==
    status = 200 =>
        /\ WellTypedBody(response)
        /\ PassesValidation(LastOutput)
        /\ \A f \in SixFields :
              /\ f \in DOMAIN json_loads(CleanedOf(LastOutput)).f
              /\ StrictlyTyped(f, json_loads(CleanedOf(LastOutput)).f[f])

\* the value cannot be converted to the type of the field
Unconvertible(f, v) ==
    CASE f \in {"summary", "feedback"} ->
            v.t \in {"null", "list", "dict"} \/ (~lax_str /\ v.t # "str")
      [] f \in {"skills_score", "experience_score", "overall_score"} ->
            \/ v.t \in {"null", "list", "dict"}
            \/ v.t = "str" /\ \E i \in 1..Len(v.s) :
                                 v.s[i] \notin DigitSet \cup {"-", " ", "\n"}
            \/ v.t = "str" /\ v.s = <<>>
      [] OTHER ->
            \/ v.t # "list"
            \/ \E i \in 1..Len(v.l) :
                  v.l[i].t \in {"null", "list", "dict"} \/ (~lax_str /\ v.l[i].t # "str")

\* C8 as amended: a 200 carries the six fields with their types, from an
\* output that passed validation; no output lacking a field, or holding a
\* value that cannot be converted to its field's type (null, a list or an
\* object for a text or a score, a text that is no number for a score, a
\* number for a text unless the installed pydantic takes it, anything but
\* a list of such texts for missing_aspects) yields a 200.  A score given
\* as a text of digits does yield a 200.
Thm_C8 ==
    /\ status = 200 =>
          /\ WellTypedBody(response)
          /\ PassesValidation(LastOutput)
          /\ \A f \in SixFields :
                /\ f \in DOMAIN json_loads(CleanedOf(LastOutput)).f
                /\ ~Unconvertible(f, json_loads(CleanedOf(LastOutput)).f[f])
    /\ \A k \in 1..Len(outputs) :
          LET d == json_loads(CleanedOf(outputs[k]))
          IN  (d.k = "object" /\ \E f \in SixFields :
                    f \notin DOMAIN d.f \/ Unconvertible(f, d.f[f]))
                 => ~(status = 200 /\ k = Len(outputs))

\* a 200 from an output one of whose scores is a text of digits
Wit_C8 ==
    /\ status = 200
    /\ \E f \in SixFields : ~StrictlyTyped(f, json_loads(CleanedOf(LastOutput)).f[f])

\* C9: an upload whose content type is neither application/pdf nor
\* application/json is answered 400 (unsupported type) and no model call is
\* made.
Thm_C9 ==
    (endpoint = "upload" /\ upload.ctype \notin {"application/pdf", "application/json"})
        => /\ pc = "done"
           /\ status = 400
           /\ detail = D_type
           /\ calls = <<>>
           /\ outputs = <<>>

\* a text/plain upload, answered
Wit_C9 == endpoint = "upload" /\ upload.ctype = "text/plain" /\ status = 400

\* C10: for a well-formed JSON upload, the resume text is the value of the
\* resume_text field when the document has one (the empty string
\* included), else the JSON-serialized document, whatever its top-level
\* shape; no invalid-document error is raised.
Claim_C10 ==
    (endpoint = "upload" /\ upload.ctype = CT_json /\ upload.json.k # "malformed")
        => /\ status # 400
           /\ resume_text =
                 IF upload.json.k = "object" /\ HasKey(upload.json.m, K_resume_text)
                 THEN DictGet(upload.json.m, K_resume_text)
                 ELSE JStr(json_dumps(upload.json))

-----------------------------------------------------------------------------
(* clean_json on texts: the model wraps a JSON text J in a fence with the  *)
(* json tag, call_gemini strips the response and clean_json cleans it.     *)

MaxBody == 4

BodyChars == {"j", "s", "o", "n", "x"}

\* JSON texts: a string literal, and an object with one string member
JsonTexts ==
    UNION { {Quoted(b), <<"{">> \o Quoted(<<"k">>) \o <<":", " ">> \o Quoted(b) \o <<"}">>} :
            b \in SeqsUpTo(BodyChars, MaxBody) }

\* the response: the fence and the tag, J, the closing fence; a newline
\* after the tag and before the closing fence or not, whitespace around
\* the whole or not
Fenced(j, nl, pad) ==
    pad \o T_fence \o T_json \o nl \o j \o nl \o T_fence \o pad

InitClean ==
    /\ pc = "idle"
    /\ endpoint = "none"
    /\ upload = NoFile
    /\ resume_text = JNull
    /\ prompt = <<>>
    /\ attempt = 0
    /\ calls = <<>>
    /\ outputs = <<>>
    /\ status = 0
    /\ detail = ""
    /\ response = NoResponse
    /\ lax_str = FALSE
    /\ J = <<>>
    /\ model_text = <<>>
    /\ cleaned = <<>>
    /\ cpc = "start"
    /\ reqs = <<>>

\* the model answers with J inside a fence
ModelAnswers(j, nl, pad) ==
    /\ cpc = "start"
    /\ J' = j
    /\ model_text' = Fenced(j, nl, pad)
    /\ cpc' = "answered"
    /\ UNCHANGED <<cleaned, reqvars, reqs>>

\* call_gemini returns the stripped text
CallReturns ==
    /\ cpc = "answered"
    /\ cleaned' = call_gemini_text(model_text)
    /\ cpc' = "raw"
    /\ UNCHANGED <<J, model_text, reqvars, reqs>>

\* clean_json is applied to what call_gemini returned
CleanStep ==
    /\ cpc = "raw"
    /\ cleaned' = clean_json(cleaned)
    /\ cpc' = "cleaned"
    /\ UNCHANGED <<J, model_text, reqvars, reqs>>

NextClean ==
    \/ \E j \in JsonTexts, nl \in {<<>>, <<"\n">>}, pad \in {<<>>, <<" ">>} :
          ModelAnswers(j, nl, pad)
    \/ CallReturns
    \/ CleanStep

SpecClean == InitClean /\ [][NextClean]_vars

\* C7: J wrapped in a fence with the json tag is cleaned to exactly J: the
\* fence and the tag go and the content of J is not altered.
Claim_C7 == cpc = "cleaned" => cleaned = Strip(J)

-----------------------------------------------------------------------------
(* Uploads that are invalid documents, PDF uploads, ranges, failed calls.  *)

\* C11: a JSON upload that is malformed, or a PDF upload that fails to
\* open, is answered 400 with the error of its document kind, and no model
\* call is made for the request.
Thm_C11 ==
    /\ (endpoint = "upload" /\ upload.ctype = "application/json"
          /\ upload.json.k = "malformed")
           => (pc = "done" /\ status = 400 /\ detail = D_json
                 /\ calls = <<>> /\ outputs = <<>>)
    /\ (endpoint = "upload" /\ upload.ctype = "application/pdf" /\ ~upload.pdf.opens)
           => (pc = "done" /\ status = 400 /\ detail = D_pdf
                 /\ calls = <<>> /\ outputs = <<>>)

\* a PDF upload that did not open, answered
Wit_C11 ==
    /\ endpoint = "upload"
    /\ upload.ctype = "application/pdf"
    /\ ~upload.pdf.opens
    /\ status = 400

\* the texts of the first n pages one after the other, a page without a
\* text counting as the empty text
RECURSIVE TextOfPages(_, _)
TextOfPages(pages, n) ==
    IF n = 0 THEN <<>> ELSE TextOfPages(pages, n - 1) \o pages[n].s

IsPdfUpload == endpoint = "upload" /\ upload.ctype = "application/pdf"

\* C12: for a PDF upload that opens, a page whose text is missing or whose
\* extraction fails contributes the empty text and causes no error: the
\* upload goes on to the loop with the text of the remaining pages.
Claim_C12 ==
    (IsPdfUpload /\ upload.pdf.opens)
        => /\ status # 400
           /\ resume_text.t = "str"
           /\ resume_text.s =
                 Strip(TextOfPages(upload.pdf.pages, Len(upload.pdf.pages)))

EveryPageHasText ==
    \A i \in 1..Len(upload.pdf.pages) : upload.pdf.pages[i].r = "text"

\* C13 as claimed: with a text on every page, the resume text is the
\* concatenation of the page texts in page order, no character added or
\* removed.
Claim_C13 ==
    (IsPdfUpload /\ upload.pdf.opens /\ EveryPageHasText)
        => /\ resume_text.t = "str"
           /\ resume_text.s = TextOfPages(upload.pdf.pages, Len(upload.pdf.pages))

\* C13 as amended: with a text on every page, the resume text is the
\* concatenation of the page texts in page order with the whitespace at
\* its two ends removed: a stretch of the concatenation that neither
\* starts nor ends with whitespace and outside of which the concatenation
\* holds whitespace only.
Thm_C13 ==
    (IsPdfUpload /\ upload.pdf.opens /\ EveryPageHasText)
        => LET all == TextOfPages(upload.pdf.pages, Len(upload.pdf.pages))
               got == resume_text.s
           IN  /\ status # 400
               /\ resume_text.t = "str"
               /\ got # <<>> => (got[1] \notin {" ", "\n"}
                                   /\ got[Len(got)] \notin {" ", "\n"})
               /\ \E i \in 1..(Len(all) + 1) :
                     /\ i + Len(got) - 1 <= Len(all)
                     /\ got = SubSeq(all, i, i + Len(got) - 1)
                     /\ \A j \in 1..Len(all) :
                           (j < i \/ j > i + Len(got) - 1) => all[j] \in {" ", "\n"}

\* a two-page PDF with a text on each page, whose concatenation ends with
\* whitespace that the resume text lacks
Wit_C13 ==
    /\ IsPdfUpload /\ upload.pdf.opens /\ EveryPageHasText
    /\ Len(upload.pdf.pages) = 2
    /\ upload.pdf.pages[1].s # upload.pdf.pages[2].s
    /\ pc # "idle"
    /\ resume_text.s # TextOfPages(upload.pdf.pages, 2)

\* the cleaned output is an object that holds the six fields, each of the
\* JSON type of the schema, whatever the numbers and the length of the list
TypedOutput(resp) ==
    LET d == json_loads(CleanedOf(resp))
    IN  /\ d.k = "object"
        /\ \A f \in SixFields : f \in DOMAIN d.f /\ StrictlyTyped(f, d.f[f])

ScoreNames == {"skills_score", "experience_score", "overall_score"}

\* C14: validation checks the type, not the range nor the length: an
\* output whose fields have the types of the schema passes validation
\* whatever its scores (0, -3, 11) and however many items missing_aspects
\* has (none, five), and the 200 carries those scores and that list as
\* they came.
Thm_C14 ==
    \A k \in 1..Len(outputs) :
        TypedOutput(outputs[k]) =>
            LET d == json_loads(CleanedOf(outputs[k])).f
            IN  /\ k = Len(outputs)
                /\ status = 200
                /\ \A f \in ScoreNames : SameNumber(response[f], d[f])
                /\ response["missing_aspects"] = d["missing_aspects"]

\* a 200 that carries a score below 1, a score above 10 and an empty list
Wit_C14 ==
    /\ status = 200
    /\ \E f \in ScoreNames : response[f].n < 10
    /\ \E f \in ScoreNames : response[f].n > 100
    /\ response["missing_aspects"].l = <<>>

\* C17: when a model call raises, the request ends in an error and never in
\* a 200, and no model call follows the one that raised.
Thm_C17 ==
    Len(outputs) < Len(calls) =>
        /\ pc = "done"
        /\ status = 500
        /\ response = NoResponse
        /\ Len(calls) = Len(outputs) + 1

\* a call that raised on a retry, after a first answer that failed
\* validation
Wit_C17 == Len(outputs) = 1 /\ Len(calls) = 2 /\ status = 500

-----------------------------------------------------------------------------
(* Concurrent requests.  FastAPI runs score_resume in a worker thread per  *)
(* request and upload_resume on the event loop, so handlers interleave at  *)
(* their model calls.  Each handler has its own locals (resume_text,       *)
(* prompt, attempt, raw_text, parsed); the module-level model client is    *)
(* the one object they share, and no handler writes to it.  A model call   *)
(* is two steps here, the call and its return, so that a call can be in    *)
(* flight, and can stay so for ever.                                       *)

NumRequests == 2

Requests == 1..NumRequests

IdleRequest ==
    [ pc |-> "idle", ep |-> "none", file |-> NoFile, text |-> JNull,
      prompt |-> <<>>, attempt |-> 0, calls |-> <<>>, outputs |-> <<>>,
      status |-> 0, detail |-> "", body |-> NoResponse ]

\* the requests the handlers are given: a /score body or an /upload file
Arrivals ==
    {[ep |-> "score", text |-> <<"c", "v">>, file |-> NoFile]}
    \cup {[ep |-> "upload", text |-> <<>>, file |-> f] :
             f \in {[ctype |-> CT_json,
                     json |-> FileObject(<< <<K_resume_text, JStr(<<"f", "o", "o">>)>> >>),
                     pdf |-> NoPdf],
                    [ctype |-> "text/plain", json |-> FileNotJson, pdf |-> NoPdf]}}

\* the answers of the model: a valid object, an object that lacks a field,
\* a JSON text that is no object
Answers ==
    { Response(FALSE, FALSE, TopObject(Good)),
      Response(FALSE, FALSE, TopObject(Without(Good, "feedback"))),
      Response(FALSE, FALSE, TopValue(JNull)) }

RECURSIVE SumAttempts(_)
SumAttempts(n) == IF n = 0 THEN 0 ELSE SumAttempts(n - 1) + reqs[n].attempt

\* the loop variable kept in one module-level counter that every handler
\* advances
LoopIndex_shared(r) == SumAttempts(NumRequests)

\* the loop variable of the handler of request r: a local of process_resume
LoopIndex(r) == reqs[r].attempt

InitTwo ==
    /\ pc = "idle"
    /\ endpoint = "none"
    /\ upload = NoFile
    /\ resume_text = JNull
    /\ prompt = <<>>
    /\ attempt = 0
    /\ calls = <<>>
    /\ outputs = <<>>
    /\ status = 0
    /\ detail = ""
    /\ response = NoResponse
    /\ lax_str = FALSE   \* no answer drawn here is read differently by the two pydantic
    /\ J = <<>>
    /\ model_text = <<>>
    /\ cleaned = <<>>
    /\ cpc = "off"
    /\ reqs = [r \in Requests |-> IdleRequest]

\* the handler of request r runs up to its first model call: score_resume,
\* or upload_resume, then process_resume up to the loop
Arrive(r, a) ==
    /\ reqs[r].pc = "idle"
    /\ LET got == IF a.ep = "score" THEN Ok(JStr(a.text)) ELSE upload_resume(a.file)
       IN  reqs' = [reqs EXCEPT ![r] =
               IF got.ok
               THEN [@ EXCEPT !.pc = "loop", !.ep = a.ep, !.file = a.file,
                              !.text = got.text, !.prompt = build_prompt(got.text)]
               ELSE [@ EXCEPT !.pc = "done", !.ep = a.ep, !.file = a.file,
                              !.status = 400, !.detail = got.detail]]
    /\ UNCHANGED <<reqvars, cleanvars>>

\* the handler of request r calls the model and blocks
CallModel(r) ==
    /\ reqs[r].pc = "loop"
    /\ LoopIndex(r) < MaxAttempts
    /\ reqs' = [reqs EXCEPT ![r].pc = "calling",
                            ![r].calls = Append(@, reqs[r].prompt)]
    /\ UNCHANGED <<reqvars, cleanvars>>

\* the loop past a failed attempt of request r: the next iteration, or the
\* 500 after the last
AfterFailure(r, rec) ==
    IF LoopIndex(r) + 1 < MaxAttempts
    THEN [rec EXCEPT !.pc = "loop", !.attempt = @ + 1]
    ELSE [rec EXCEPT !.pc = "done", !.attempt = @ + 1, !.status = 500,
                     !.detail = D_model]

\* the call of request r returns resp: the rest of the iteration
ModelReturns(r, resp) ==
    /\ reqs[r].pc = "calling"
    /\ LET it == Iteration(resp)
           rec == [reqs[r] EXCEPT !.outputs = Append(@, resp)]
       IN  reqs' = [reqs EXCEPT ![r] =
               CASE it.act = "return" ->
                      [rec EXCEPT !.pc = "done", !.status = 200, !.body = it.body]
                 [] it.act = "raise" ->
                      [rec EXCEPT !.pc = "done", !.status = 500, !.detail = D_unhandled]
                 [] it.act = "continue" -> AfterFailure(r, rec)]
    /\ UNCHANGED <<reqvars, cleanvars>>

\* the call of request r raises
ModelRaises(r) ==
    /\ reqs[r].pc = "calling"
    /\ reqs' = [reqs EXCEPT ![r] =
           IF OnCallError = "raise"
           THEN [@ EXCEPT !.pc = "done", !.status = 500, !.detail = D_unhandled]
           ELSE AfterFailure(r, @)]
    /\ UNCHANGED <<reqvars, cleanvars>>

NextTwo ==
    \/ \E r \in Requests, a \in Arrivals : Arrive(r, a)
    \/ \E r \in Requests : CallModel(r)
    \/ \E r \in Requests, resp \in Answers : ModelReturns(r, resp)
    \/ \E r \in Requests : ModelRaises(r)

SpecTwo == InitTwo /\ [][NextTwo]_vars

\* a handler that can run does run, and every model call returns or raises
SpecTwoFair ==
    /\ SpecTwo
    /\ \A r \in Requests : WF_vars(CallModel(r))
    /\ \A r \in Requests :
          WF_vars((\E resp \in Answers : ModelReturns(r, resp)) \/ ModelRaises(r))

\* how many of the first k answers failed validation
RECURSIVE FailedBefore(_, _)
FailedBefore(outs, k) ==
    IF k = 0 THEN 0
    ELSE FailedBefore(outs, k - 1)
         + (IF Iteration(outs[k]).act = "continue" THEN 1 ELSE 0)

\* C15: in every interleaving, the outcome of a request and the number of
\* its model calls are those its own input and the answers to its own
\* calls give: its prompts are built from its own text, every answer but
\* its last failed validation, its loop variable counts its own failed
\* attempts, and it ends with the 200 of its own last answer, with the
\* error of that answer or of its own call that raised, or with the 500
\* after its own third failure.
Thm_C15 ==
    \A r \in Requests :
        LET q == reqs[r]
            n == Len(q.outputs)
        IN  /\ Len(q.calls) <= 3
            /\ Len(q.calls) - n \in {0, 1}
            /\ \A i \in 1..Len(q.calls) : q.calls[i] = build_prompt(q.text)
            /\ \A k \in 1..(n - 1) : Iteration(q.outputs[k]).act = "continue"
            /\ q.attempt = FailedBefore(q.outputs, n)
            /\ q.pc = "calling" => Len(q.calls) = n + 1
            /\ (Len(q.calls) = n + 1 /\ q.pc # "calling") =>
                  (q.pc = "done" /\ q.status = 500 /\ q.detail = D_unhandled)
            /\ q.pc = "loop" => (q.attempt = n /\ n < 3 /\ q.status = 0)
            /\ (q.pc = "done" /\ q.status = 200) =>
                  /\ n >= 1
                  /\ Iteration(q.outputs[n]).act = "return"
                  /\ q.body = Iteration(q.outputs[n]).body
            /\ (q.pc = "done" /\ q.status = 500 /\ q.detail = D_model) =>
                  (n = 3 /\ q.attempt = 3)
            /\ (q.pc = "done" /\ q.status = 500 /\ q.detail = D_unhandled) =>
                  \/ Len(q.calls) = n + 1
                  \/ n >= 1 /\ Iteration(q.outputs[n]).act = "raise"
            /\ (q.pc = "done" /\ q.status = 400) =>
                  (q.ep = "upload" /\ q.calls = <<>> /\ q.detail = upload_resume(q.file).detail)
            /\ q.pc = "done" => q.status \in {200, 400, 500}

\* two requests in flight at once, one after a failed attempt, while the
\* other has failed twice
Wit_C15 ==
    /\ reqs[1].pc = "calling" /\ reqs[1].attempt = 1
    /\ reqs[2].pc = "calling" /\ reqs[2].attempt = 2

\* C16: provided every model call returns or raises, a request that has
\* arrived comes to its end, a 200 or an error, after at most 3 model
\* calls; and a request blocked in a model call leaves it only by the
\* return or the exception of that call: no step times it out or cancels
\* it, so it never ends when the call never returns.
Thm_C16 ==
    /\ \A r \in Requests :
          (reqs[r].pc # "idle") ~>
              (reqs[r].pc = "done" /\ reqs[r].status \in {200, 400, 500})
    /\ [](\A r \in Requests : Len(reqs[r].calls) <= 3)
    /\ [][\A r \in Requests :
             (reqs[r].pc = "calling" /\ reqs'[r].pc # "calling") =>
                 \/ Len(reqs'[r].outputs) = Len(reqs[r].outputs) + 1
                 \/ reqs'[r].status = 500 /\ reqs'[r].detail = D_unhandled]_vars

\* a request that ended after its third model call while the other is
\* blocked in a call
Wit_C16 ==
    /\ reqs[1].pc = "calling"
    /\ reqs[2].pc = "done"
    /\ Len(reqs[2].calls) = 3

====
